---- MODULE Spec2Model ----
(***************************************************************************)
(* Model of pixstem/cluster_tools.py: the peak clustering and sorting      *)
(* pipeline (_filter_peak_list, _get_cluster_dict, _sort_cluster_dict,     *)
(* _cluster_and_sort_peak_array).                                          *)
(*                                                                         *)
(* Python values are modelled as follows.                                  *)
(*   list of peaks      a sequence of rows, a row being a sequence of      *)
(*                      integers (<<x, y>> for a 2-coordinate point)       *)
(*   numpy array        a record [shape, data]; shape is the sequence of   *)
(*                      the array's dimensions and data is the sequence    *)
(*                      of its rows                                        *)
(*   cluster_dict       a sequence of <<label, list>> pairs in the dict's  *)
(*                      insertion order                                    *)
(*   sorted_cluster_dict  a function from the keys present to their lists  *)
(*   eps                the integer part of eps * eps: on integer           *)
(*                      coordinates, distance <= eps is the same as        *)
(*                      squared distance <= that integer                   *)
(*   np.hypot           the squared distance dx*dx + dy*dy: on integer     *)
(*                      coordinates it orders and ties distances exactly   *)
(*                      as the square root does                            *)
(*   a raised exception the name of the exception in the variable raised   *)
(*   cluster.DBSCAN     the labels the library computes (dbscan_labels):   *)
(*                      core samples, clusters numbered in the order of    *)
(*                      their first core sample, the other samples given   *)
(*                      to the first cluster that reaches them, else -1    *)
(***************************************************************************)
EXTENDS Integers, Sequences, FiniteSets, Bags, TLC

VARIABLES
    pc,                  \* position of the call that is being executed
    raised,              \* "none", or the exception that ended the call
    peak_list,           \* _filter_peak_list: the argument
    max_x_index,         \* _filter_peak_list: the argument
    max_y_index,         \* _filter_peak_list: the argument
    peak_list_filtered,  \* _filter_peak_list: the value returned
    peak_list_refiltered,\* _filter_peak_list applied to its own result
    peak_array,          \* _get_cluster_dict: the argument (or the grid)
    eps,                 \* the argument eps, as the integer part of eps * eps
    min_samples,         \* the argument min_samples
    label_list,          \* dbscan.labels_ of the last fit
    dbscan_calls,        \* number of times dbscan.fit has been invoked
    cluster_dict,        \* the value returned by _get_cluster_dict
    centre_x,            \* _sort_cluster_dict: the argument
    centre_y,            \* _sort_cluster_dict: the argument
    centre_label,        \* _sort_cluster_dict: the local centre_label
    sorted_cluster_dict, \* the value returned by _sort_cluster_dict
    icell,               \* _cluster_and_sort_peak_array: loop position
    cell_log,            \* per cell, what the loop body computed for it
    peak_centre_array,   \* _cluster_and_sort_peak_array: output grid
    peak_rest_array,     \* _cluster_and_sort_peak_array: output grid
    peak_none_array,     \* _cluster_and_sort_peak_array: output grid
    peak_dicts           \* the value returned by the grid call

vars == <<pc, raised, peak_list, max_x_index, max_y_index,
          peak_list_filtered, peak_list_refiltered, peak_array, eps,
          min_samples, label_list, dbscan_calls, cluster_dict, centre_x, centre_y, centre_label,
          sorted_cluster_dict, icell, cell_log, peak_centre_array,
          peak_rest_array, peak_none_array, peak_dicts>>

filterVars == <<peak_list, max_x_index, max_y_index, peak_list_filtered,
                peak_list_refiltered>>

clusterVars == <<peak_array, eps, min_samples, label_list, dbscan_calls, cluster_dict,
                 centre_x, centre_y, centre_label, sorted_cluster_dict>>

gridVars == <<icell, cell_log, peak_centre_array, peak_rest_array,
              peak_none_array, peak_dicts>>

(***************************************************************************)
(* Bounds of the model.                                                    *)
(***************************************************************************)
\* _filter_peak_list: x coordinates are 0..MaxCoord, lists have at most
\* MaxPeaks peaks
MaxCoord == 3

MaxPeaks == 3

\* _get_cluster_dict, _sort_cluster_dict: arrays have at most MaxClusterPeaks
\* peaks
MaxClusterPeaks == 5

\* _cluster_and_sort_peak_array: cells have at most MaxCellPeaks peaks
MaxCellPeaks == 3

\* Python's None (also the content of a cell of np.empty(..., dtype=object)),
\* as a value that differs from every list of peaks
None == <<(<<>>)>>

XCoords == 0..MaxCoord

YCoords == {0, 1, 2}

Points == {<<x, y>> : x \in XCoords, y \in YCoords}

RECURSIVE ListsUpTo(_, _)
ListsUpTo(S, n) ==
    IF n = 0 THEN {<<>>}
    ELSE LET shorter == ListsUpTo(S, n - 1)
         IN  shorter \cup {Append(l, e) : l \in {s \in shorter : Len(s) = n - 1}, e \in S}

\* the multiset of the elements of a list
RECURSIVE BagOfList(_)
BagOfList(l) ==
    IF l = <<>> THEN EmptyBag
    ELSE SetToBag({Head(l)}) (+) BagOfList(Tail(l))

(***************************************************************************)
(* _filter_peak_list                                                       *)
(***************************************************************************)
\* the loop of _filter_peak_list from its i-th element on, acc being
\* peak_list_filtered so far
RECURSIVE filter_loop_skip(_, _, _, _, _)
filter_loop_skip(pl, i, acc, mx, my) ==
    IF i > Len(pl) THEN acc
    ELSE LET x == pl[i][1]
             y == pl[i][2]
         IN  IF x = 0 \/ y = 0 \/ x = mx \/ y = my
             THEN filter_loop_skip(pl, i + 2,
                      IF i + 1 <= Len(pl) THEN Append(acc, pl[i + 1]) ELSE acc,
                      mx, my)
             ELSE filter_loop_skip(pl, i + 1, Append(acc, <<x, y>>), mx, my)

RECURSIVE filter_loop(_, _, _, _, _)
filter_loop(pl, i, acc, mx, my) ==
    IF i > Len(pl) THEN acc
    ELSE LET x == pl[i][1]
             y == pl[i][2]
         IN  IF x = 0 THEN filter_loop(pl, i + 1, acc, mx, my)
             ELSE IF y = 0 THEN filter_loop(pl, i + 1, acc, mx, my)
             ELSE IF x = mx THEN filter_loop(pl, i + 1, acc, mx, my)
             ELSE IF y = my THEN filter_loop(pl, i + 1, acc, mx, my)
             ELSE filter_loop(pl, i + 1, Append(acc, <<x, y>>), mx, my)

\* a filter that forgets the test of y against max_y_index
_filter_peak_list_no_max_y(pl, mx, my) ==
    SelectSeq(pl, LAMBDA p : p[1] # 0 /\ p[2] # 0 /\ p[1] # mx)

\* a filter that removes in place while iterating, and so steps over the
\* element that follows a removed one
_filter_peak_list_skip(pl, mx, my) == filter_loop_skip(pl, 1, <<>>, mx, my)

_filter_peak_list(pl, mx, my) == filter_loop(pl, 1, <<>>, mx, my)

(***************************************************************************)
(* numpy arrays                                                            *)
(***************************************************************************)
\* np.array(list of 2-coordinate points): an empty list gives shape (0,)
np_array(l) ==
    [shape |-> IF Len(l) = 0 THEN <<0>> ELSE <<Len(l), 2>>, data |-> l]

ClusterCoords == {0, 1}

ClusterPoints == {<<x, y>> : x \in ClusterCoords, y \in ClusterCoords}

\* arrays of shape (n, 2), n = 0 included
Arrays2D ==
    {[shape |-> <<Len(l), 2>>, data |-> l] :
        l \in ListsUpTo(ClusterPoints, MaxClusterPeaks)}

\* arrays of shape (n,), n = 0 included, and (n, 1), (n, 3) and (n, 2, 1)
ArraysOther ==
    LET short == ListsUpTo({0, 1}, 2)
        some == short \ {<<>>}
    IN  {[shape |-> <<Len(l)>>, data |-> l] : l \in short}
        \cup {[shape |-> <<Len(l), 1>>,
               data |-> [i \in 1..Len(l) |-> <<l[i]>>]] : l \in some}
        \cup {[shape |-> <<Len(l), 3>>,
               data |-> [i \in 1..Len(l) |-> <<l[i], 1, 2>>]] : l \in some}
        \cup {[shape |-> <<Len(l), 2, 1>>,
               data |-> [i \in 1..Len(l) |-> <<(<<l[i]>>), (<<1>>)>>]] :
                  l \in some}

PeakArrays == Arrays2D \cup ArraysOther

Centres == {<<1, 1>>, <<0, 2>>}

\* the values of eps (squared, see above) and of min_samples of the model
EpsValues == {0, 1}

MinSamplesValues == {1, 2}

(***************************************************************************)
(* _get_cluster_dict                                                       *)
(***************************************************************************)
\* the squared Euclidean distance of two rows of the same length (the
\* rows of the model have at most 3 coordinates)
sq_dist(a, b) ==
    (a[1] - b[1]) * (a[1] - b[1])
    + (IF Len(a) >= 2 THEN (a[2] - b[2]) * (a[2] - b[2]) ELSE 0)
    + (IF Len(a) >= 3 THEN (a[3] - b[3]) * (a[3] - b[3]) ELSE 0)

\* DBSCAN: the core samples reached from the core samples S, neigh[k] being
\* the samples within eps of sample k
RECURSIVE dbscan_expand(_, _, _)
dbscan_expand(S, core, neigh) ==
    LET S2 == S \cup {j \in core : \E k \in S : j \in neigh[k]}
    IN  IF S2 = S THEN S ELSE dbscan_expand(S2, core, neigh)

\* DBSCAN: the number of a cluster, comp[i] being the core samples chained
\* to the core sample i: the clusters are numbered from 0 in the order of
\* their first core sample
dbscan_core_label(i, core, comp) ==
    LET first(j) == CHOOSE m \in comp[j] : \A k \in comp[j] : m <= k
    IN  Cardinality({f \in {first(j) : j \in core} : f < first(i)})

\* DBSCAN: a core sample has the label of its cluster; a sample that is not
\* a core sample has the label of the first cluster with a core sample
\* within eps of it, and -1 when there is none
dbscan_assign(n, neigh, core, comp) ==
    [i \in 1..n |->
        IF i \in core THEN dbscan_core_label(i, core, comp)
        ELSE LET near == {dbscan_core_label(j, core, comp) :
                             j \in neigh[i] \cap core}
             IN  IF near = {} THEN -1
                 ELSE CHOOSE l \in near : \A m \in near : l <= m]

\* DBSCAN(eps, min_samples).fit(data).labels_: a sample is a core sample
\* when min_samples samples, itself included, are within eps of it, and
\* the clusters are the core samples chained by distances within eps.
\* (The nested sets only name the intermediate values neigh, core, comp.)
dbscan_labels(data, e, ms) ==
    CHOOSE labels \in UNION UNION
        {{{dbscan_assign(Len(data), neigh, core, comp) :
              comp \in {[i \in core |-> dbscan_expand({i}, core, neigh)]}} :
            core \in {{i \in 1..Len(data) : Cardinality(neigh[i]) >= ms}}} :
          neigh \in {[i \in 1..Len(data) |->
                        {j \in 1..Len(data) :
                            sq_dist(data[i], data[j]) <= e}]}} : TRUE

\* what dbscan.fit(X) does: the routine rejects an array that has not 2
\* dimensions; on an array without samples it either rejects the array or
\* returns no labels
dbscan_fit(X, e, ms) ==
    IF Len(X.shape) # 2
    THEN {[raised |-> "ValueError", labels_ |-> <<>>]}
    ELSE IF X.shape[1] = 0
    THEN {[raised |-> "ValueError", labels_ |-> <<>>],
          [raised |-> "none", labels_ |-> <<>>]}
    ELSE {[raised |-> "none", labels_ |-> dbscan_labels(X.data, e, ms)]}

\* sorted(list(set(label_list)))
RECURSIVE sorted_set(_)
sorted_set(S) ==
    IF S = {} THEN <<>>
    ELSE LET m == CHOOSE a \in S : \A b \in S : a <= b
         IN  <<m>> \o sorted_set(S \ {m})

label_unique_list(ll) == sorted_set({ll[i] : i \in 1..Len(ll)})

\* the peaks of peak_array whose label is label, in the order of peak_array
RECURSIVE peaks_of_label(_, _, _, _)
peaks_of_label(data, ll, label, i) ==
    IF i > Len(data) \/ i > Len(ll) THEN <<>>
    ELSE (IF ll[i] = label THEN <<data[i]>> ELSE <<>>)
         \o peaks_of_label(data, ll, label, i + 1)

\* lines 114-121 with the append of a peak under the key of the next label
build_cluster_dict_shifted(X, ll) ==
    LET unique == label_unique_list(ll)
    IN  [k \in 1..Len(unique) |->
            <<unique[k],
              peaks_of_label(X.data, ll, unique[(k % Len(unique)) + 1], 1)>>]

\* lines 114-121: one empty list per unique label, then every peak appended
\* to the list of its label
build_cluster_dict(X, ll) ==
    LET unique == label_unique_list(ll)
    IN  [k \in 1..Len(unique) |->
            <<unique[k], peaks_of_label(X.data, ll, unique[k], 1)>>]

\* the shape test of line 108
shape_is_rejected(X) == Len(X.shape) # 2

\* _get_cluster_dict with the shape test made after the fit
_get_cluster_dict_fit_first(X, fit) ==
    IF shape_is_rejected(X) \/ fit.raised # "none"
    THEN [raised |-> "ValueError", fitted |-> TRUE, label_list |-> None,
          cluster_dict |-> None]
    ELSE [raised |-> "none", fitted |-> TRUE, label_list |-> fit.labels_,
          cluster_dict |-> build_cluster_dict(X, fit.labels_)]

\* _get_cluster_dict, fit being what dbscan.fit does if it is invoked;
\* fitted tells whether it was invoked
_get_cluster_dict(X, fit) ==
    IF shape_is_rejected(X)
    THEN [raised |-> "ValueError", fitted |-> FALSE, label_list |-> None,
          cluster_dict |-> None]
    ELSE IF fit.raised # "none"
    THEN [raised |-> fit.raised, fitted |-> TRUE, label_list |-> None,
          cluster_dict |-> None]
    ELSE [raised |-> "none", fitted |-> TRUE, label_list |-> fit.labels_,
          cluster_dict |-> build_cluster_dict(X, fit.labels_)]

(***************************************************************************)
(* _sort_cluster_dict                                                      *)
(***************************************************************************)
Abs(a) == IF a < 0 THEN -a ELSE a

\* np.argmin of a non-empty sequence, with the last of the minima returned
argmin_last(a) ==
    CHOOSE i \in 1..Len(a) :
        /\ \A j \in 1..Len(a) : a[i] <= a[j]
        /\ \A j \in (i + 1)..Len(a) : a[i] < a[j]

\* np.argmin of a non-empty sequence: the index of the first of the minima
argmin(a) ==
    CHOOSE i \in 1..Len(a) :
        /\ \A j \in 1..Len(a) : a[i] <= a[j]
        /\ \A j \in 1..(i - 1) : a[j] > a[i]

\* _find_nearest: the element of array nearest to value
_find_nearest(array, value) ==
    CHOOSE nearest \in
        {arr[argmin([i \in 1..Len(arr) |-> Abs(arr[i] - value)])] :
            arr \in {array}} : TRUE

\* np.hypot(dx, dy), squared
hypot(dx, dy) == dx * dx + dy * dy

\* lines 163-165: the distances of the peaks of one cluster to the centre
r_of(cluster_list, cx, cy) ==
    [i \in 1..Len(cluster_list) |->
        hypot(cluster_list[i][1] - cx, cluster_list[i][2] - cy)]

\* cluster_array[:, 0] or cluster_array[:, 1] raises IndexError
column_error(cluster_list) ==
    \/ Len(cluster_list) = 0
    \/ \E i \in 1..Len(cluster_list) : Len(cluster_list[i]) < 2

\* d[k] = v on a dict, the key being added when it is absent
SetItem(d, k, v) ==
    [x \in (DOMAIN d) \cup {k} |-> IF x = k THEN v ELSE d[x]]

\* line 171
new_sorted_cluster_dict == [k \in {"none", "centre", "rest"} |-> <<>>]

\* the branches of lines 173-178 with the centre test made first
sort_branch_centre_first(d, label, cluster_list, c_label) ==
    IF label = c_label THEN SetItem(d, "centre", cluster_list)
    ELSE IF label = -1 THEN SetItem(d, "none", cluster_list)
    ELSE SetItem(d, "rest", d["rest"] \o cluster_list)

\* the branches of lines 173-178 with 'rest' assigned instead of extended
sort_branch_rest_assigned(d, label, cluster_list, c_label) ==
    IF label = -1 THEN SetItem(d, "none", cluster_list)
    ELSE IF label = c_label THEN SetItem(d, "centre", cluster_list)
    ELSE SetItem(d, "rest", cluster_list)

\* lines 173-178: the body of the second loop
sort_branch(d, label, cluster_list, c_label) ==
    IF label = -1 THEN SetItem(d, "none", cluster_list)
    ELSE IF label = c_label THEN SetItem(d, "centre", cluster_list)
    ELSE SetItem(d, "rest", d["rest"] \o cluster_list)

\* lines 172-178: the second loop from the i-th item of cluster_dict on
RECURSIVE sort_loop(_, _, _, _)
sort_loop(cd, i, d, c_label) ==
    IF i > Len(cd) THEN d
    ELSE sort_loop(cd, i + 1, sort_branch(d, cd[i][1], cd[i][2], c_label),
                   c_label)

\* lines 160-169: the label whose nearest peak is nearest to the centre,
\* the noise label -1 taking part like any other
select_centre_label(cd, cx, cy) ==
    LET label_list_ == [i \in 1..Len(cd) |-> cd[i][1]]
    IN  CHOOSE c_label \in
            {label_list_[argmin(closest_list)] :
                closest_list \in
                    {[i \in 1..Len(cd) |->
                        _find_nearest(r_of(cd[i][2], cx, cy), 0)]}} : TRUE

_sort_cluster_dict(cd, cx, cy) ==
    IF \E i \in 1..Len(cd) : column_error(cd[i][2])
    THEN [raised |-> "IndexError", centre_label |-> None,
          sorted_cluster_dict |-> None]
    ELSE IF Len(cd) = 0
    THEN [raised |-> "ValueError", centre_label |-> None,
          sorted_cluster_dict |-> None]
    ELSE CHOOSE out \in
             {[raised |-> "none", centre_label |-> c_label,
               sorted_cluster_dict |->
                   sort_loop(cd, 1, new_sorted_cluster_dict, c_label)] :
                c_label \in {select_centre_label(cd, cx, cy)}} : TRUE

(***************************************************************************)
(* Specification of _filter_peak_list: the list is filtered, and the       *)
(* result is filtered again.                                               *)
(***************************************************************************)
\* the pairs (max_x_index, max_y_index) of the model
MaxIndexes == {<<MaxCoord, 2>>, <<MaxCoord - 1, 1>>}

InitFilter ==
    /\ pc = "filter"
    /\ raised = "none"
    /\ peak_list \in ListsUpTo(Points, MaxPeaks)
    /\ \E m \in MaxIndexes : max_x_index = m[1] /\ max_y_index = m[2]
    /\ peak_list_filtered = None
    /\ peak_list_refiltered = None
    /\ peak_array = None
    /\ eps = 30
    /\ min_samples = 2
    /\ label_list = None
    /\ dbscan_calls = 0
    /\ cluster_dict = None
    /\ centre_x = 128
    /\ centre_y = 128
    /\ centre_label = None
    /\ sorted_cluster_dict = None
    /\ icell = 0
    /\ cell_log = None
    /\ peak_centre_array = None
    /\ peak_rest_array = None
    /\ peak_none_array = None
    /\ peak_dicts = None

FilterPeakList ==
    /\ pc = "filter"
    /\ peak_list_filtered' =
           _filter_peak_list(peak_list, max_x_index, max_y_index)
    /\ pc' = "filtered"
    /\ UNCHANGED <<raised, peak_list, max_x_index, max_y_index,
                   peak_list_refiltered, clusterVars, gridVars>>

FilterAgain ==
    /\ pc = "filtered"
    /\ peak_list_refiltered' =
           _filter_peak_list(peak_list_filtered, max_x_index, max_y_index)
    /\ pc' = "refiltered"
    /\ UNCHANGED <<raised, peak_list, max_x_index, max_y_index,
                   peak_list_filtered, clusterVars, gridVars>>

NextFilter == FilterPeakList \/ FilterAgain

SpecFilter == InitFilter /\ [][NextFilter]_vars

(***************************************************************************)
(* Specification of _get_cluster_dict followed by _sort_cluster_dict on    *)
(* the Cluster Map it returned.                                            *)
(***************************************************************************)
InitCluster ==
    /\ pc = "get_cluster_dict"
    /\ raised = "none"
    /\ peak_list = None
    /\ max_x_index = 255
    /\ max_y_index = 255
    /\ peak_list_filtered = None
    /\ peak_list_refiltered = None
    /\ peak_array \in PeakArrays
    /\ eps \in EpsValues
    /\ min_samples \in MinSamplesValues
    /\ label_list = None
    /\ dbscan_calls = 0
    /\ cluster_dict = None
    /\ \E c \in Centres : centre_x = c[1] /\ centre_y = c[2]
    /\ centre_label = None
    /\ sorted_cluster_dict = None
    /\ icell = 0
    /\ cell_log = None
    /\ peak_centre_array = None
    /\ peak_rest_array = None
    /\ peak_none_array = None
    /\ peak_dicts = None

GetClusterDict ==
    /\ pc = "get_cluster_dict"
    /\ \E fit \in dbscan_fit(peak_array, eps, min_samples) :
       \E out \in {_get_cluster_dict(peak_array, fit)} :
          /\ dbscan_calls' = IF out.fitted THEN dbscan_calls + 1
                             ELSE dbscan_calls
          /\ raised' = out.raised
          /\ label_list' = out.label_list
          /\ cluster_dict' = out.cluster_dict
          /\ pc' = IF out.raised # "none" THEN "raised"
                   ELSE "sort_cluster_dict"
    /\ UNCHANGED <<filterVars, peak_array, eps, min_samples, centre_x,
                   centre_y, centre_label, sorted_cluster_dict, gridVars>>

SortClusterDict ==
    /\ pc = "sort_cluster_dict"
    /\ \E out \in {_sort_cluster_dict(cluster_dict, centre_x, centre_y)} :
          /\ raised' = out.raised
          /\ centre_label' = out.centre_label
          /\ sorted_cluster_dict' = out.sorted_cluster_dict
          /\ pc' = IF out.raised # "none" THEN "raised" ELSE "sorted"
    /\ UNCHANGED <<filterVars, peak_array, eps, min_samples, label_list,
                   dbscan_calls, cluster_dict, centre_x, centre_y, gridVars>>

NextCluster == GetClusterDict \/ SortClusterDict

SpecCluster == InitCluster /\ [][NextCluster]_vars

(***************************************************************************)
(* _cluster_and_sort_peak_array                                            *)
(***************************************************************************)
\* peak_array.shape[:2] of the grids of the model
GridShape == <<1, 2>>

\* np.ndindex(shape): the cell indexes in row-major order
ndindex(shape) ==
    [k \in 1..(shape[1] * shape[2]) |->
        <<(k - 1) \div shape[2], (k - 1) % shape[2]>>]

CellIndexes(shape) == {ndindex(shape)[k] : k \in 1..Len(ndindex(shape))}

\* np.empty(shape=peak_array.shape[:2], dtype=np.object)
np_empty(shape) == [idx \in CellIndexes(shape) |-> None]

GridPoints == {<<1, 1>>, <<0, 1>>}

\* the cells of a filtered grid, and the cell of a 4D array without peaks
CellArrays ==
    {np_array(l) : l \in ListsUpTo(GridPoints, MaxCellPeaks)}
        \cup {[shape |-> <<0, 2>>, data |-> <<>>]}

\* lines 192-203 with the three grids written crosswise
store_buckets_crossed(c, r, n, idx, d) ==
    [centre |-> [c EXCEPT ![idx] = d["centre"]],
     rest   |-> [r EXCEPT ![idx] = d["none"]],
     none   |-> [n EXCEPT ![idx] = d["rest"]]]

\* lines 192-203: the buckets of one cell written to the three grids; when
\* the key 'none' is absent it is the cell of peak_rest_array that is
\* set to []
store_buckets(c, r, n, idx, d) ==
    LET c1 == [c EXCEPT ![idx] = IF "centre" \in DOMAIN d THEN d["centre"]
                                 ELSE <<>>]
        r1 == [r EXCEPT ![idx] = IF "rest" \in DOMAIN d THEN d["rest"]
                                 ELSE <<>>]
    IN  IF "none" \in DOMAIN d
        THEN [centre |-> c1, rest |-> r1,
              none |-> [n EXCEPT ![idx] = d["none"]]]
        ELSE [centre |-> c1, rest |-> [r1 EXCEPT ![idx] = <<>>], none |-> n]

\* lines 190-191: the call of _sort_cluster_dict on what the call g of
\* _get_cluster_dict returned, if it returned
sort_cell(g, cx, cy) ==
    IF g.raised # "none"
    THEN [raised |-> g.raised, fitted |-> g.fitted,
          label_list |-> g.label_list, cluster_dict |-> g.cluster_dict,
          centre_label |-> None, sorted_cluster_dict |-> None]
    ELSE CHOOSE out \in
             {[raised |-> s.raised, fitted |-> g.fitted,
               label_list |-> g.label_list, cluster_dict |-> g.cluster_dict,
               centre_label |-> s.centre_label,
               sorted_cluster_dict |-> s.sorted_cluster_dict] :
                  s \in {_sort_cluster_dict(g.cluster_dict, cx, cy)}} : TRUE

(***************************************************************************)
(* Specification of _cluster_and_sort_peak_array: the loop over the cells  *)
(* of a grid, one cell a step, and the return.                             *)
(***************************************************************************)
InitGrid ==
    /\ pc = "grid_loop"
    /\ raised = "none"
    /\ peak_list = None
    /\ max_x_index = 255
    /\ max_y_index = 255
    /\ peak_list_filtered = None
    /\ peak_list_refiltered = None
    /\ \E cells \in [CellIndexes(GridShape) -> CellArrays] :
          peak_array = [shape |-> GridShape, data |-> cells]
    /\ eps \in EpsValues
    /\ min_samples \in MinSamplesValues
    /\ label_list = None
    /\ dbscan_calls = 0
    /\ cluster_dict = None
    /\ \E c \in Centres : centre_x = c[1] /\ centre_y = c[2]
    /\ centre_label = None
    /\ sorted_cluster_dict = None
    /\ icell = 1
    /\ cell_log = np_empty(GridShape)
    /\ peak_centre_array = np_empty(GridShape)
    /\ peak_rest_array = np_empty(GridShape)
    /\ peak_none_array = np_empty(GridShape)
    /\ peak_dicts = None

ProcessCell ==
    /\ pc = "grid_loop"
    /\ icell <= Len(ndindex(peak_array.shape))
    /\ LET idx == ndindex(peak_array.shape)[icell]
       IN  \E fit \in dbscan_fit(peak_array.data[idx], eps, min_samples) :
           \E g \in {_get_cluster_dict(peak_array.data[idx], fit)} :
           \E out \in {sort_cell(g, centre_x, centre_y)} :
              /\ dbscan_calls' = IF out.fitted THEN dbscan_calls + 1
                                 ELSE dbscan_calls
              /\ label_list' = out.label_list
              /\ cluster_dict' = out.cluster_dict
              /\ centre_label' = out.centre_label
              /\ sorted_cluster_dict' = out.sorted_cluster_dict
              /\ cell_log' = [cell_log EXCEPT ![idx] = out]
              /\ raised' = out.raised
              /\ IF out.raised # "none"
                 THEN /\ pc' = "raised"
                      /\ UNCHANGED <<icell, peak_centre_array,
                                     peak_rest_array, peak_none_array>>
                 ELSE \E w \in {store_buckets(peak_centre_array,
                                    peak_rest_array, peak_none_array, idx,
                                    out.sorted_cluster_dict)} :
                        /\ peak_centre_array' = w.centre
                        /\ peak_rest_array' = w.rest
                        /\ peak_none_array' = w.none
                        /\ icell' = icell + 1
                        /\ pc' = "grid_loop"
    /\ UNCHANGED <<filterVars, peak_array, eps, min_samples, centre_x,
                   centre_y, peak_dicts>>

GridReturn ==
    /\ pc = "grid_loop"
    /\ icell > Len(ndindex(peak_array.shape))
    /\ peak_dicts' = [centre |-> peak_centre_array, rest |-> peak_rest_array,
                      none |-> peak_none_array]
    /\ pc' = "returned"
    /\ UNCHANGED <<raised, filterVars, clusterVars, icell, cell_log,
                   peak_centre_array, peak_rest_array, peak_none_array>>

NextGrid == ProcessCell \/ GridReturn

SpecGrid == InitGrid /\ [][NextGrid]_vars

(***************************************************************************)
(* Properties of _filter_peak_list, checked under SpecFilter.              *)
(***************************************************************************)
\* C3: the list returned by _filter_peak_list is exactly the subsequence of
\* the points of peak_list with x # 0, y # 0, x # max_x_index and
\* y # max_y_index, in the order of peak_list; an empty list gives an empty
\* list.
C3_EdgeFilterExact ==
    pc \in {"filtered", "refiltered"} =>
        /\ peak_list_filtered =
               SelectSeq(peak_list,
                         LAMBDA p : /\ p[1] # 0
                                    /\ p[2] # 0
                                    /\ p[1] # max_x_index
                                    /\ p[2] # max_y_index)
        /\ (peak_list = <<>> => peak_list_filtered = <<>>)

\* a list of three points has been filtered: one point on the edge
\* y = max_y_index only was dropped and two points were kept
C3_Witness ==
    /\ pc = "filtered"
    /\ Len(peak_list) = 3
    /\ Len(peak_list_filtered) = 2
    /\ peak_list_filtered[1] # peak_list_filtered[2]
    /\ \E i \in 1..3 : /\ peak_list[i][2] = max_y_index
                       /\ peak_list[i][1] \notin {0, max_x_index}

\* C9: filtering the list returned by _filter_peak_list, with the same
\* bounds, returns it unchanged.
C9_EdgeFilterIdempotent ==
    pc = "refiltered" => peak_list_refiltered = peak_list_filtered

\* a list that lost points to the first filtering and kept some has been
\* filtered a second time
C9_Witness ==
    /\ pc = "refiltered"
    /\ Len(peak_list) = 3
    /\ Len(peak_list_filtered) = 1
    /\ peak_list[2] = peak_list_filtered[1]

(***************************************************************************)
(* Properties of _get_cluster_dict and _sort_cluster_dict, checked under   *)
(* SpecCluster.                                                            *)
(***************************************************************************)
\* the peaks of all the lists of a dict, in the order of the dict
RECURSIVE AllValues(_)
AllValues(cd) ==
    IF cd = <<>> THEN <<>> ELSE Head(cd)[2] \o AllValues(Tail(cd))

\* the smallest squared distance of a peak of a non-empty list to the centre
MinDist(cluster_list) ==
    LET D == {(cluster_list[i][1] - centre_x) * (cluster_list[i][1] - centre_x)
              + (cluster_list[i][2] - centre_y) * (cluster_list[i][2] - centre_y) :
                 i \in 1..Len(cluster_list)}
    IN  CHOOSE d \in D : \A e \in D : d <= e

\* the positions of the non-noise labels in cluster_dict
NonNoise == {k \in 1..Len(cluster_dict) : cluster_dict[k][1] # -1}

\* C4: in the map returned by _get_cluster_dict every label of label_list
\* is a key exactly once, every peak is in the list of its own label, and
\* the lists together hold the peaks of peak_array, each as often as
\* peak_array does.
C4_ClusterMapCoverage ==
    pc = "sort_cluster_dict" =>
        LET data == peak_array.data
            rows == {data[i] : i \in 1..Len(data)}
        IN  /\ Len(label_list) = Len(data)
            /\ \A i \in 1..Len(label_list) :
                  Cardinality({k \in 1..Len(cluster_dict) :
                                  cluster_dict[k][1] = label_list[i]}) = 1
            /\ \A k \in 1..Len(cluster_dict) : \A p \in rows :
                  CopiesIn(p, BagOfList(cluster_dict[k][2])) =
                      Cardinality({i \in 1..Len(data) :
                          data[i] = p /\ label_list[i] = cluster_dict[k][1]})
            /\ BagOfList(AllValues(cluster_dict)) = BagOfList(data)

\* three peaks, not all equal, have been put under two keys or more
C4_Witness ==
    /\ pc = "sort_cluster_dict"
    /\ Len(peak_array.data) = 3
    /\ peak_array.shape[2] = 2
    /\ Len(cluster_dict) >= 2
    /\ peak_array.data[1] # peak_array.data[2]
    /\ label_list[1] # label_list[2]

\* C8 as stated: _get_cluster_dict raises the shape error, without a call
\* of the clustering routine and without a Cluster Map, for every input
\* that is not a 2-dimensional array of 2-coordinate points.
C8_RejectsEveryNonPointArray ==
    (pc # "get_cluster_dict"
        /\ (Len(peak_array.shape) # 2 \/ peak_array.shape[2] # 2)) =>
        /\ raised = "ValueError"
        /\ dbscan_calls = 0
        /\ pc = "raised"

\* C8 amended: _get_cluster_dict raises the shape error, without a call of
\* the clustering routine and without a Cluster Map, when the number of
\* dimensions of its input is not 2; an input of 2 dimensions is handed to
\* the clustering routine whatever the number of coordinates of its points.
C8_RejectsWrongDimensions ==
    pc # "get_cluster_dict" =>
        /\ Len(peak_array.shape) # 2 =>
              /\ raised = "ValueError"
              /\ dbscan_calls = 0
              /\ pc = "raised"
        /\ Len(peak_array.shape) = 2 => dbscan_calls = 1

\* an array of 3 dimensions with peaks in it has been rejected
C8_Witness ==
    /\ pc = "raised"
    /\ Len(peak_array.shape) = 3
    /\ peak_array.shape[1] > 0
    /\ raised = "ValueError"

\* C1 as stated: when the Cluster Map has a non-noise label, 'centre' is
\* the list of a non-noise label whose nearest peak is at least as near to
\* the centre as that of every other non-noise label, and 'rest' holds the
\* peaks of all the other non-noise labels.
C1_CentreIsNearestCluster ==
    (pc = "sorted" /\ NonNoise # {}) =>
        \E k \in NonNoise :
            /\ \A j \in NonNoise :
                  MinDist(cluster_dict[k][2]) <= MinDist(cluster_dict[j][2])
            /\ sorted_cluster_dict["centre"] = cluster_dict[k][2]
            /\ BagOfList(sorted_cluster_dict["rest"]) =
                   BagOfList(AllValues(SelectSeq(cluster_dict,
                       LAMBDA e : e[1] # -1 /\ e[1] # cluster_dict[k][1])))

\* C2: the three buckets hold together the peaks of the Cluster Map, each as
\* often as the map does; 'none' is the list of label -1; 'centre' is the
\* list of at most one non-noise label and 'rest' holds the lists of all the
\* other non-noise labels, so that no label is in both and the two hold
\* together the non-noise peaks.
C2_BucketsPartition ==
    pc = "sorted" =>
        LET centre == sorted_cluster_dict["centre"]
            rest == sorted_cluster_dict["rest"]
            none == sorted_cluster_dict["none"]
            noise == SelectSeq(cluster_dict, LAMBDA e : e[1] = -1)
            clustered == SelectSeq(cluster_dict, LAMBDA e : e[1] # -1)
            set(l) == {l[i] : i \in 1..Len(l)}
        IN  /\ DOMAIN sorted_cluster_dict = {"centre", "rest", "none"}
            /\ BagOfList(centre) (+) BagOfList(rest) (+) BagOfList(none) =
                   BagOfList(AllValues(cluster_dict))
            /\ none = AllValues(noise)
            /\ BagOfList(centre) (+) BagOfList(rest) =
                   BagOfList(AllValues(clustered))
            /\ \E C \in SUBSET NonNoise :
                  /\ Cardinality(C) <= 1
                  /\ centre = AllValues(SelectSeq(cluster_dict,
                         LAMBDA e : \E k \in C : e[1] = cluster_dict[k][1]))
                  /\ rest = AllValues(SelectSeq(cluster_dict,
                         LAMBDA e : \E k \in NonNoise \ C :
                                       e[1] = cluster_dict[k][1]))
            /\ (\A i, j \in 1..Len(cluster_dict) :
                    i # j => set(cluster_dict[i][2]) \cap
                             set(cluster_dict[j][2]) = {})
                  => set(centre) \cap set(rest) = {}

\* a map of three labels has been sorted into three non-empty buckets
C2_Witness ==
    /\ pc = "sorted"
    /\ Len(cluster_dict) = 3
    /\ sorted_cluster_dict["centre"] # <<>>
    /\ sorted_cluster_dict["rest"] # <<>>
    /\ sorted_cluster_dict["none"] # <<>>

\* C5: on a Cluster Map of 2-coordinate points whose only key is -1 the call
\* of _sort_cluster_dict ends without an exception, with 'centre' and 'rest'
\* empty and 'none' equal to the input points.
C5_AllNoise ==
    (/\ pc \in {"sorted", "raised"}
     /\ Len(peak_array.shape) = 2
     /\ peak_array.shape[2] = 2
     /\ peak_array.shape[1] > 0
     /\ Len(cluster_dict) = 1
     /\ cluster_dict[1][1] = -1) =>
        /\ pc = "sorted"
        /\ raised = "none"
        /\ sorted_cluster_dict["centre"] = <<>>
        /\ sorted_cluster_dict["rest"] = <<>>
        /\ sorted_cluster_dict["none"] = peak_array.data

\* a map whose only key is -1, with two peaks or more, has been sorted
C5_Witness ==
    /\ pc = "sorted"
    /\ peak_array.shape[2] = 2
    /\ Len(cluster_dict) = 1
    /\ cluster_dict[1][1] = -1
    /\ Len(cluster_dict[1][2]) >= 2

\* C10: the keys of the Cluster Map are in ascending order, and the label
\* selected by _sort_cluster_dict is the first, in that order, of the labels
\* whose nearest peak is nearest to the centre; when it is not the noise
\* label, 'centre' is its list.
C10_FirstOfTheTied ==
    pc = "sorted" =>
        LET idx == 1..Len(cluster_dict)
            tied == {k \in idx : \A j \in idx :
                        MinDist(cluster_dict[k][2]) <=
                            MinDist(cluster_dict[j][2])}
            first == CHOOSE k \in tied : \A j \in tied : k <= j
        IN  /\ \A i, j \in idx :
                  i < j => cluster_dict[i][1] < cluster_dict[j][1]
            /\ centre_label = cluster_dict[first][1]
            /\ centre_label # -1 =>
                  sorted_cluster_dict["centre"] = cluster_dict[first][2]

\* two clusters tie for the smallest distance, nearer than the noise, and
\* the one of the smaller label has been selected
C10_Witness ==
    /\ pc = "sorted"
    /\ Len(cluster_dict) = 3
    /\ MinDist(cluster_dict[2][2]) = MinDist(cluster_dict[3][2])
    /\ MinDist(cluster_dict[2][2]) < MinDist(cluster_dict[1][2])
    /\ centre_label = 0
    /\ sorted_cluster_dict["centre"] = cluster_dict[2][2]
    /\ sorted_cluster_dict["centre"] # cluster_dict[3][2]

(***************************************************************************)
(* Properties of _cluster_and_sort_peak_array, checked under SpecGrid.     *)
(***************************************************************************)
\* C6: the three grids returned have the cell indexes of the input grid;
\* every cell of each of them holds a list, the bucket of that name that
\* _sort_cluster_dict returned for the Cluster Map of the same input cell;
\* so the 'none' cell holds the peaks of the input cell labelled -1 and the
\* three cells hold together the peaks of the input cell.  The call ends
\* with an exception instead of a result only at a cell without peaks.
C6_PerCellBuckets ==
    /\ pc = "raised" =>
          peak_array.data[ndindex(peak_array.shape)[icell]].shape[1] = 0
    /\ pc = "returned" =>
        /\ \A k \in {"centre", "rest", "none"} :
              DOMAIN peak_dicts[k] = CellIndexes(peak_array.shape)
        /\ \A idx \in CellIndexes(peak_array.shape) :
              LET log == cell_log[idx]
                  cell == peak_array.data[idx].data
              IN  /\ \A k \in {"centre", "rest", "none"} :
                        /\ peak_dicts[k][idx] # None
                        /\ peak_dicts[k][idx] =
                               IF k \in DOMAIN log.sorted_cluster_dict
                               THEN log.sorted_cluster_dict[k] ELSE <<>>
                  /\ peak_dicts["none"][idx] =
                         peaks_of_label(cell, log.label_list, -1, 1)
                  /\ BagOfList(peak_dicts["centre"][idx])
                         (+) BagOfList(peak_dicts["rest"][idx])
                         (+) BagOfList(peak_dicts["none"][idx])
                       = BagOfList(cell)

\* the call has returned for a grid with a cell sorted into a centre
\* cluster and noise and a cell sorted into noise and a cluster that is not
\* the centre cluster
C6_Witness ==
    /\ pc = "returned"
    /\ peak_dicts["centre"][<<0, 0>>] # <<>>
    /\ peak_dicts["none"][<<0, 0>>] # <<>>
    /\ peak_dicts["rest"][<<0, 1>>] # <<>>
    /\ peak_dicts["none"][<<0, 1>>] # <<>>

\* C7 as stated: for a cell that holds an empty Peak List the loop body does
\* not invoke the clustering routine, raises nothing, and writes the empty
\* list to the cell of the three grids.
C7_EmptyCellShortCircuits ==
    \A k \in 1..Len(ndindex(peak_array.shape)) :
        LET idx == ndindex(peak_array.shape)[k]
        IN  (/\ peak_array.data[idx].shape[1] = 0
             /\ (icell > k \/ (icell = k /\ pc = "raised"))) =>
                /\ raised = "none"
                /\ ~cell_log[idx].fitted
                /\ peak_centre_array[idx] = <<>>
                /\ peak_rest_array[idx] = <<>>
                /\ peak_none_array[idx] = <<>>

====
